---- MODULE Spec2Model ----
(***************************************************************************)
(* Model of em_algorithm (assignment-04/em.ipynb): the Expectation-        *)
(* Maximization fit of a two-component Poisson mixture.                    *)
(*                                                                         *)
(* float64 values are modelled as tagged values:                           *)
(*   "fin"  a finite number, held as a fixed-point integer v (value        *)
(*          v / SCALE), products and quotients truncated to 1/SCALE;       *)
(*   "big"  a finite positive number above the fixed-point range (such as  *)
(*          2.0 ** 171), still below the float64 maximum;                  *)
(*   "inf", "ninf", "nan"  the IEEE-754 special values.                    *)
(***************************************************************************)
EXTENDS Integers, Sequences, FiniteSets

\* ------------------------------------------------------------ bounds
HALF == 500
MaxCount == 3
MaxLen == 2
MaxIter == 4

\* float64: 170! is the largest finite factorial, gamma(172.0) is inf
FactorialMax == 170

\* fixed-point unit: a finite value x is held as the integer x * SCALE
SCALE == 2 * HALF

\* largest magnitude the fixed-point products may reach
FixedRange == 2 * SCALE * SCALE * SCALE

\* ------------------------------------------------------------ float64
Fin(v) == [k |-> "fin", v |-> v]
NaN == [k |-> "nan", v |-> 0]
PosInf == [k |-> "inf", v |-> 0]
NegInf == [k |-> "ninf", v |-> 0]
Big == [k |-> "big", v |-> 0]

Zero == Fin(0)
One == Fin(SCALE)
FromInt(n) == Fin(n * SCALE)

IsFin(a) == a.k = "fin"
IsNaN(a) == a.k = "nan"
IsPos(a) == a.k \in {"big", "inf"} \/ (a.k = "fin" /\ a.v > 0)
IsNeg(a) == a.k = "ninf" \/ (a.k = "fin" /\ a.v < 0)
IsZero(a) == a.k = "fin" /\ a.v = 0

Range(v) == IF v > FixedRange \div SCALE THEN Big ELSE Fin(v)

\* an operator applied to the values of its arguments, each evaluated once
Val1(Op(_), x) == CHOOSE r \in {Op(a) : a \in {x}} : TRUE
Val2(Op(_, _), x, y) == CHOOSE r \in {Op(a, b) : a \in {x}, b \in {y}} : TRUE

\* a * b
MulOf(a, b) ==
    IF IsNaN(a) \/ IsNaN(b) THEN NaN
    ELSE IF IsFin(a) /\ IsFin(b)
         THEN IF a.v > 0 /\ b.v > 0 /\ a.v > FixedRange \div b.v
              THEN Big
              ELSE Fin((a.v * b.v) \div SCALE)
    ELSE IF IsZero(a) \/ IsZero(b)
         THEN IF "inf" \in {a.k, b.k} \/ "ninf" \in {a.k, b.k} THEN NaN ELSE Zero
    ELSE IF "inf" \in {a.k, b.k} \/ "ninf" \in {a.k, b.k}
         THEN IF IsPos(a) = IsPos(b) THEN PosInf ELSE NegInf
    ELSE Big
FMul(x, y) == Val2(MulOf, x, y)

\* a / b (numpy: division by zero gives inf or nan, with a warning)
DivOf(a, b) ==
    IF IsNaN(a) \/ IsNaN(b) THEN NaN
    ELSE IF IsZero(b)
         THEN IF IsZero(a) THEN NaN ELSE IF IsPos(a) THEN PosInf ELSE NegInf
    ELSE IF b.k \in {"inf", "ninf"}
         THEN IF a.k \in {"inf", "ninf"} THEN NaN ELSE Zero
    ELSE IF a.k \in {"inf", "ninf"}
         THEN IF IsPos(a) = IsPos(b) THEN PosInf ELSE NegInf
    ELSE IF b.k = "big" THEN (IF a.k = "big" THEN One ELSE Zero)
    ELSE IF a.k = "big" THEN Big
    ELSE IF a.v > FixedRange \div SCALE THEN Big
    ELSE Fin((a.v * SCALE) \div b.v)
FDiv(x, y) == Val2(DivOf, x, y)

\* a + b
AddOf(a, b) ==
    IF IsNaN(a) \/ IsNaN(b) THEN NaN
    ELSE IF IsFin(a) /\ IsFin(b) THEN Range(a.v + b.v)
    ELSE IF {a.k, b.k} = {"inf", "ninf"} THEN NaN
    ELSE IF "inf" \in {a.k, b.k} THEN PosInf
    ELSE IF "ninf" \in {a.k, b.k} THEN NegInf
    ELSE Big
FAdd(x, y) == Val2(AddOf, x, y)

\* -a
NegOf(a) ==
    CASE a.k = "fin" -> Fin(-a.v)
      [] a.k = "inf" -> NegInf
      [] a.k = "ninf" -> PosInf
      [] a.k = "big" -> NegInf
      [] OTHER -> NaN
FNeg(x) == Val1(NegOf, x)

FSub(a, b) == FAdd(a, FNeg(b))

\* abs(a)
AbsOf(a) ==
    CASE a.k = "fin" -> Fin(IF a.v < 0 THEN -a.v ELSE a.v)
      [] a.k = "ninf" -> PosInf
      [] OTHER -> a
FAbs(x) == Val1(AbsOf, x)

\* a < b (false as soon as one side is nan)
LessOf(a, b) ==
    IF IsNaN(a) \/ IsNaN(b) THEN FALSE
    ELSE IF IsFin(a) /\ IsFin(b) THEN a.v < b.v
    ELSE IF a.k = b.k THEN FALSE
    ELSE a.k = "ninf" \/ b.k = "inf" \/ (b.k = "big" /\ a.k = "fin")
FLess(x, y) == Val2(LessOf, x, y)

\* e^v for a fixed-point v >= 0: the Taylor series, summed until a term vanishes
RECURSIVE ExpSeries(_, _, _)
ExpSeries(v, n, term) ==
    IF term = 0 THEN 0
    ELSE term + ExpSeries(v, n + 1, (term * v) \div (n * SCALE))

ExpPos(v) == ExpSeries(v, 1, SCALE)

\* the series is summed for |v| <= 7: e^-v truncates to 0 beyond it, and e^v
\* leaves the fixed-point range soon after
ExpRange == 7 * SCALE

\* np.exp(a)
ExpOf(a) ==
    CASE a.k = "nan" -> NaN
      [] a.k \in {"inf", "big"} -> PosInf
      [] a.k = "ninf" -> Zero
      [] OTHER -> IF a.v > ExpRange THEN Big
                  ELSE IF a.v >= 0 THEN Fin(ExpPos(a.v))
                  ELSE IF a.v < -ExpRange THEN Zero
                  ELSE Fin((SCALE * SCALE) \div ExpPos(-a.v))
FExp(x) == Val1(ExpOf, x)

\* ln(2) in fixed point
Ln2 == (693147 * SCALE) \div 1000000

\* unit of the logarithm's series: two digits finer than SCALE
LnScale == 100 * SCALE

\* 2 * atanh(z) = 2 * (z + z^3/3 + z^5/5 + ...) for 0 <= z <= 1/3, z and the
\* result in units of 1 / LnScale
RECURSIVE AtanhSeries(_, _, _)
AtanhSeries(z2, n, pw) ==
    IF pw = 0 THEN 0
    ELSE (2 * pw) \div n + AtanhSeries(z2, n + 2, (pw * z2) \div LnScale)

\* ln of a fixed-point m in [SCALE, 2 * SCALE): ln(m) = 2 * atanh((m - 1) / (m + 1))
LnMantissa(m) ==
    LET z == ((m - SCALE) * LnScale) \div (m + SCALE)
    IN  (AtanhSeries((z * z) \div LnScale, 1, z) * SCALE) \div LnScale

\* ln of a fixed-point v > 0: halve or double v into [SCALE, 2 * SCALE)
RECURSIVE LnFixed(_)
LnFixed(v) ==
    IF v >= 2 * SCALE THEN Ln2 + LnFixed(v \div 2)
    ELSE IF v < SCALE THEN LnFixed(2 * v) - Ln2
    ELSE LnMantissa(v)

\* np.log(a)
LogOf(a) ==
    CASE a.k = "nan" -> NaN
      [] a.k = "ninf" -> NaN
      [] a.k = "inf" -> PosInf
      [] a.k = "big" -> Big
      [] OTHER -> IF a.v < 0 THEN NaN
                  ELSE IF a.v = 0 THEN NegInf
                  ELSE Fin(LnFixed(a.v))
FLog(x) == Val1(LogOf, x)

\* a * a
SquareOf(a) == MulOf(a, a)
FSquare(x) == Val1(SquareOf, x)

\* mu ** x for a count x, by repeated squaring (x ** 0 is 1, also for nan);
\* a negative x gives the reciprocal, as the float power does
RECURSIVE FPow(_, _)
FPow(mu, x) ==
    IF x = 0 THEN One
    ELSE IF x < 0 THEN FDiv(One, FPow(mu, 0 - x))
    ELSE LET sq == FSquare(FPow(mu, x \div 2))
         IN  IF x % 2 = 0 THEN sq ELSE FMul(sq, mu)

\* 1 * 2 * ... * x from i on, cut short once the product has left the fixed-point range
RECURSIVE FactFrom(_, _, _)
FactFrom(i, x, acc) ==
    IF i > x \/ acc.k = "big" THEN acc
    ELSE FactFrom(i + 1, x, FMul(acc, FromInt(i)))

\* scipy.special.factorial(x) on a float: gamma(x + 1), inf from 171 on,
\* 0 for a negative x
factorial(x) ==
    IF x < 0 THEN Zero
    ELSE IF x > FactorialMax THEN PosInf
    ELSE FactFrom(1, x, One)

\* ------------------------------------------------------------ arrays
\* np.sum(a)
RECURSIVE SumOf(_)
SumOf(a) == IF Len(a) = 0 THEN Zero ELSE FAdd(Head(a), SumOf(Tail(a)))
FSum(x) == Val1(SumOf, x)

\* np.mean(a)
FMean(a) == FDiv(FSum(a), FromInt(Len(a)))

\* ------------------------------------------------------------ inputs
\* counts of a sample: small ones, and the first one whose factorial is inf
DataValues == (0 .. MaxCount) \cup {FactorialMax + 1}
Samples == UNION {[1 .. n -> DataValues] : n \in 1 .. MaxLen}
Tolerances == {Fin(1), Fin(SCALE \div 10), Fin(2 * SCALE)}
MaxIters == 1 .. MaxIter

\* a sample the contract of fit rules out: it is empty or holds a negative count
Malformed(d) == Len(d) = 0 \/ \E i \in 1 .. Len(d) : d[i] < 0
MalformedSamples ==
    {d \in UNION {[1 .. k -> DataValues \cup {-1}] : k \in 0 .. MaxLen} : Malformed(d)}

\* ------------------------------------------------------------ em.ipynb
initialize_parameters == <<FromInt(2), FromInt(5), Fin(HALF), Fin(HALF)>>

VARIABLES
    data,                   \* parameter: the sample
    tol,                    \* parameter: convergence tolerance
    max_iter,               \* parameter: iteration cap
    pc,                     \* position in em_algorithm
    iteration,              \* the loop index (-1 before the loop starts)
    mu1, mu2, pi1, pi2,     \* the mixture state
    r1, r2,                 \* responsibilities of the last E-step
    total_responsibility,   \* unnormalized sums of the last E-step
    log_likelihoods,        \* the trace
    stdout,                 \* iterations named by the printed messages
    ret,                    \* the returned tuple, <<>> before the return
    last                    \* what the call before this one returned and printed

vars == <<data, tol, max_iter, pc, iteration, mu1, mu2, pi1, pi2, r1, r2,
          total_responsibility, log_likelihoods, stdout, ret, last>>

n == Len(data)

\* no call before this one
NoCall == [ret |-> <<>>, stdout |-> <<>>, tol |-> Zero]

\* pi * exp(-mu) * mu ** x / factorial(x)
Unnormalized(pi, mu, x) ==
    FDiv(FMul(FMul(pi, FExp(FNeg(mu))), FPow(mu, x)), factorial(x))

\* r /= total_responsibility
Normalized(u, total) == [i \in 1 .. Len(u) |-> FDiv(u[i], total[i])]

\* pi2 = 1 - pi1
Complement(p) == FSub(One, p)

\* mutant: the quotient of the mean update inverted
WeightedMeanInverted(r, d) ==
    FDiv(FSum(r), FSum([i \in 1 .. Len(r) |-> FMul(r[i], FromInt(d[i]))]))

\* np.sum(r * data) / np.sum(r)
WeightedMean(r, d) ==
    FDiv(FSum([i \in 1 .. Len(r) |-> FMul(r[i], FromInt(d[i]))]), FSum(r))

\* np.sum(np.log(total_responsibility))
LogLikelihood(total) == FSum([i \in 1 .. Len(total) |-> FLog(total[i])])

\* abs(a - b) < t
Within(a, b, t) == FLess(FAbs(FSub(a, b)), t)

\* mutant: the difference compared without abs
ConvergedSigned(it, ll, t) ==
    it > 0 /\ FLess(FSub(ll[Len(ll)], ll[Len(ll) - 1]), t)

\* mutant: the guard iteration > 0 dropped, a lone entry compared with itself
ConvergedUnguarded(it, ll, t) ==
    Within(ll[Len(ll)], ll[IF Len(ll) >= 2 THEN Len(ll) - 1 ELSE Len(ll)], t)

\* iteration > 0 and abs(log_likelihoods[-1] - log_likelihoods[-2]) < tol
Converged(it, ll, t) ==
    it > 0 /\ Within(ll[Len(ll)], ll[Len(ll) - 1], t)

\* lines 102-104 on a mixture state: the unnormalized r1 and r2 and their sum
UnnormalizedOf(state, d) ==
    [i \in 1 .. Len(d) |->
        LET u1 == Unnormalized(state[3], state[1], d[i])
            u2 == Unnormalized(state[4], state[2], d[i])
        IN  <<u1, u2, FAdd(u1, u2)>>] \o <<>>

\* lines 106-107: r1 and r2 normalized
NormalizedOf(u) ==
    <<[i \in 1 .. Len(u) |-> FDiv(u[i][1], u[i][3])] \o <<>>,
      [i \in 1 .. Len(u) |-> FDiv(u[i][2], u[i][3])] \o <<>>>>

\* the M-step of lines 110-114 on the normalized r = <<r1, r2>>
MStepOf(r, d) ==
    <<WeightedMean(r[1], d), WeightedMean(r[2], d),
      FMean(r[1]), Complement(FMean(r[1]))>>

\* the E-step of lines 102-107 on a mixture state
EStepOf(state, d) == Val1(NormalizedOf, Val2(UnnormalizedOf, state, d))

\* one pass of the loop body over the mixture state: the E-step followed by
\* the M-step
Iteration(state, d) == Val2(MStepOf, Val2(EStepOf, state, d), d)

\* the log-likelihood line 117 computes from the E-step of a mixture state
TotalsOf(u) == [i \in 1 .. Len(u) |-> u[i][3]] \o <<>>
LogLikelihoodOf(state, d) ==
    LogLikelihood(Val1(TotalsOf, Val2(UnnormalizedOf, state, d)))

\* the state after k passes of the loop body from initialize_parameters()
RECURSIVE Iterate(_, _)
Iterate(k, d) ==
    IF k = 0 THEN initialize_parameters ELSE Iteration(Iterate(k - 1, d), d)

\* a mixture state with its two components swapped
Swap(state) == <<state[2], state[1], state[4], state[3]>>

\* the state after k passes of the loop body from the state start
RECURSIVE IterateFrom(_, _, _)
IterateFrom(start, k, d) ==
    IF k = 0 THEN start ELSE Iteration(IterateFrom(start, k - 1, d), d)

\* the notebook before the call of em_algorithm: the cell above it has set
\* mu1, mu2, pi1, pi2 from initialize_parameters()
Init ==
    /\ data = <<>>
    /\ tol = Zero
    /\ max_iter = 0
    /\ mu1 = initialize_parameters[1]
    /\ mu2 = initialize_parameters[2]
    /\ pi1 = initialize_parameters[3]
    /\ pi2 = initialize_parameters[4]
    /\ log_likelihoods = <<>>
    /\ iteration = -1
    /\ r1 = <<>>
    /\ r2 = <<>>
    /\ total_responsibility = <<>>
    /\ stdout = <<>>
    /\ ret = <<>>
    /\ last = NoCall
    /\ pc = "idle"

\* the call em_algorithm(data, tol, max_iter), up to the loop
Call ==
    /\ pc = "idle"
    /\ data' \in Samples
    /\ tol' \in Tolerances
    /\ max_iter' \in MaxIters
    /\ mu1' = initialize_parameters[1]
    /\ mu2' = initialize_parameters[2]
    /\ pi1' = initialize_parameters[3]
    /\ pi2' = initialize_parameters[4]
    /\ log_likelihoods' = <<>>
    /\ pc' = "for"
    /\ UNCHANGED <<iteration, r1, r2, total_responsibility, stdout, ret, last>>

\* the call em_algorithm(data, tol, max_iter) on a malformed sample, up to the
\* loop: no statement of lines 81-98 looks at the sample
CallMalformed ==
    /\ pc = "idle"
    /\ data' \in MalformedSamples
    /\ tol' \in Tolerances
    /\ max_iter' \in MaxIters
    /\ mu1' = initialize_parameters[1]
    /\ mu2' = initialize_parameters[2]
    /\ pi1' = initialize_parameters[3]
    /\ pi2' = initialize_parameters[4]
    /\ log_likelihoods' = <<>>
    /\ pc' = "for"
    /\ UNCHANGED <<iteration, r1, r2, total_responsibility, stdout, ret, last>>

\* mutant: the cap off by one, range(max_iter + 1)
ForNextOffByOne ==
    /\ pc = "for"
    /\ IF iteration + 1 <= max_iter
       THEN iteration' = iteration + 1 /\ pc' = "estep"
       ELSE iteration' = iteration /\ pc' = "return"
    /\ UNCHANGED <<data, tol, max_iter, mu1, mu2, pi1, pi2, r1, r2,
                   total_responsibility, log_likelihoods, stdout, ret, last>>

\* for iteration in range(max_iter)
ForNext ==
    /\ pc = "for"
    /\ IF iteration + 1 < max_iter
       THEN iteration' = iteration + 1 /\ pc' = "estep"
       ELSE iteration' = iteration /\ pc' = "return"
    /\ UNCHANGED <<data, tol, max_iter, mu1, mu2, pi1, pi2, r1, r2,
                   total_responsibility, log_likelihoods, stdout, ret, last>>

\* mutant: r1 is a view of the sample, which the normalization overwrites
EStepWritesSample ==
    /\ pc = "estep"
    /\ \E u1 \in {[i \in 1 .. n |-> Unnormalized(pi1, mu1, data[i])]},
          u2 \in {[i \in 1 .. n |-> Unnormalized(pi2, mu2, data[i])]} :
          \E total \in {[i \in 1 .. n |-> FAdd(u1[i], u2[i])]} :
             /\ total_responsibility' = total
             /\ r1' = Normalized(u1, total)
             /\ r2' = Normalized(u2, total)
             /\ data' = [i \in 1 .. n |->
                            IF Normalized(u1, total)[i] = One THEN 1 ELSE 0]
    /\ pc' = "mstep"
    /\ UNCHANGED <<tol, max_iter, iteration, mu1, mu2, pi1, pi2,
                   log_likelihoods, stdout, ret, last>>

\* E-step
EStep ==
    /\ pc = "estep"
    /\ \E u1 \in {[i \in 1 .. n |-> Unnormalized(pi1, mu1, data[i])]},
          u2 \in {[i \in 1 .. n |-> Unnormalized(pi2, mu2, data[i])]} :
          \E total \in {[i \in 1 .. n |-> FAdd(u1[i], u2[i])]} :
             /\ total_responsibility' = total
             /\ r1' = Normalized(u1, total)
             /\ r2' = Normalized(u2, total)
    /\ pc' = "mstep"
    /\ UNCHANGED <<data, tol, max_iter, iteration, mu1, mu2, pi1, pi2,
                   log_likelihoods, stdout, ret, last>>

\* mutant: the stopping test made before the update, which a converged
\* iteration then skips
MStepAfterCheck ==
    /\ pc = "mstep"
    /\ IF /\ iteration > 0
          /\ Within(LogLikelihood(total_responsibility),
                    log_likelihoods[Len(log_likelihoods)], tol)
       THEN UNCHANGED <<mu1, mu2, pi1, pi2>>
       ELSE /\ pi1' = FMean(r1)
            /\ pi2' = Complement(pi1')
            /\ mu1' = WeightedMean(r1, data)
            /\ mu2' = WeightedMean(r2, data)
    /\ pc' = "loglik"
    /\ UNCHANGED <<data, tol, max_iter, iteration, r1, r2, total_responsibility,
                   log_likelihoods, stdout, ret, last>>

\* mutant: the second mean's numerator copied from the first
MStepCopiedNumerator ==
    /\ pc = "mstep"
    /\ pi1' = FMean(r1)
    /\ pi2' = Complement(pi1')
    /\ mu1' = WeightedMean(r1, data)
    /\ mu2' = FDiv(FSum([i \in 1 .. Len(r1) |-> FMul(r1[i], FromInt(data[i]))]),
                   FSum(r2))
    /\ pc' = "loglik"
    /\ UNCHANGED <<data, tol, max_iter, iteration, r1, r2, total_responsibility,
                   log_likelihoods, stdout, ret, last>>

\* M-step
MStep ==
    /\ pc = "mstep"
    /\ pi1' = FMean(r1)
    /\ pi2' = Complement(pi1')
    /\ mu1' = WeightedMean(r1, data)
    /\ mu2' = WeightedMean(r2, data)
    /\ pc' = "loglik"
    /\ UNCHANGED <<data, tol, max_iter, iteration, r1, r2, total_responsibility,
                   log_likelihoods, stdout, ret, last>>

\* mutant: the log-likelihood computed from the parameters the M-step has
\* just written
AppendLogLikelihoodAfterUpdate ==
    /\ pc = "loglik"
    /\ log_likelihoods' =
          Append(log_likelihoods, LogLikelihoodOf(<<mu1, mu2, pi1, pi2>>, data))
    /\ pc' = "check"
    /\ UNCHANGED <<data, tol, max_iter, iteration, mu1, mu2, pi1, pi2, r1, r2,
                   total_responsibility, stdout, ret, last>>

\* mutant: the trace assigned instead of appended to
AppendLogLikelihoodOverwrites ==
    /\ pc = "loglik"
    /\ log_likelihoods' = <<LogLikelihood(total_responsibility)>>
    /\ pc' = "check"
    /\ UNCHANGED <<data, tol, max_iter, iteration, mu1, mu2, pi1, pi2, r1, r2,
                   total_responsibility, stdout, ret, last>>

\* Compute log-likelihood
AppendLogLikelihood ==
    /\ pc = "loglik"
    /\ log_likelihoods' = Append(log_likelihoods, LogLikelihood(total_responsibility))
    /\ pc' = "check"
    /\ UNCHANGED <<data, tol, max_iter, iteration, mu1, mu2, pi1, pi2, r1, r2,
                   total_responsibility, stdout, ret, last>>

\* mutant: the loop left on convergence without the message
CheckConvergenceSilent ==
    /\ pc = "check"
    /\ pc' = (IF Converged(iteration, log_likelihoods, tol) THEN "return" ELSE "for")
    /\ UNCHANGED <<data, tol, max_iter, iteration, mu1, mu2, pi1, pi2, r1, r2,
                   total_responsibility, log_likelihoods, stdout, ret, last>>

\* Check for convergence
CheckConvergence ==
    /\ pc = "check"
    /\ IF Converged(iteration, log_likelihoods, tol)
       THEN stdout' = Append(stdout, iteration) /\ pc' = "return"
       ELSE stdout' = stdout /\ pc' = "for"
    /\ UNCHANGED <<data, tol, max_iter, iteration, mu1, mu2, pi1, pi2, r1, r2,
                   total_responsibility, log_likelihoods, ret, last>>

\* return mu1, mu2, pi1, pi2, log_likelihoods
Return ==
    /\ pc = "return"
    /\ ret' = <<mu1, mu2, pi1, pi2, log_likelihoods>>
    /\ pc' = "done"
    /\ UNCHANGED <<data, tol, max_iter, iteration, mu1, mu2, pi1, pi2, r1, r2,
                   total_responsibility, log_likelihoods, stdout, last>>

\* mutant: the second call starts from the state the first returned
CallAgainFromResult ==
    /\ pc = "done"
    /\ last' = [ret |-> ret, stdout |-> stdout, tol |-> tol]
    /\ tol' \in Tolerances
    /\ mu1' = ret[1]
    /\ mu2' = ret[2]
    /\ pi1' = ret[3]
    /\ pi2' = ret[4]
    /\ log_likelihoods' = <<>>
    /\ iteration' = -1
    /\ r1' = <<>>
    /\ r2' = <<>>
    /\ total_responsibility' = <<>>
    /\ stdout' = <<>>
    /\ ret' = <<>>
    /\ pc' = "for"
    /\ UNCHANGED <<data, max_iter>>

\* em_algorithm called again on the same sample with the same cap and any
\* tolerance; the caller keeps what the call before returned and printed
CallAgain ==
    /\ pc = "done"
    /\ last' = [ret |-> ret, stdout |-> stdout, tol |-> tol]
    /\ tol' \in Tolerances
    /\ mu1' = initialize_parameters[1]
    /\ mu2' = initialize_parameters[2]
    /\ pi1' = initialize_parameters[3]
    /\ pi2' = initialize_parameters[4]
    /\ log_likelihoods' = <<>>
    /\ iteration' = -1
    /\ r1' = <<>>
    /\ r2' = <<>>
    /\ total_responsibility' = <<>>
    /\ stdout' = <<>>
    /\ ret' = <<>>
    /\ pc' = "for"
    /\ UNCHANGED <<data, max_iter>>

Next ==
    \/ Call
    \/ ForNext
    \/ EStep
    \/ MStep
    \/ AppendLogLikelihood
    \/ CheckConvergence
    \/ Return

Spec == Init /\ [][Next]_vars

\* the statements run one after the other, none waits
FairSpec == Init /\ [][Next]_vars /\ WF_vars(Next)

\* the caller may call again once a call has returned
SpecAgain == Init /\ [][Next \/ CallAgain]_vars

\* the mixture state the caller holds when it calls: the values of line 70
\* before the first call, the state the call before returned (mean_with,
\* mean_without, prop_with, prop_without) after it
CallerState ==
    IF last.ret = <<>> THEN initialize_parameters ELSE SubSeq(last.ret, 1, 4)

\* the loop of em_algorithm on a malformed sample
NextMalformed ==
    \/ CallMalformed
    \/ ForNext
    \/ EStep
    \/ MStep
    \/ AppendLogLikelihood
    \/ CheckConvergence
    \/ Return

SpecMalformed == Init /\ [][NextMalformed]_vars

\* ------------------------------------------------------------ claims
Last(ll) == ll[Len(ll)]
Previous(ll) == ll[Len(ll) - 1]
Stopped == pc \in {"return", "done"}
InLoopBody == pc \in {"estep", "mstep", "loglik"}

\* C1: the loop stops at the first iteration k >= 1 whose log-likelihood is
\* within tol of the entry before it, in either direction: a pair of entries
\* within tol is the last pair of the trace and no statement of the loop body
\* runs after it is appended; a loop that has stopped either saw such a pair
\* or ran exactly max_iter iterations.
C1_StopsAtFirstStep ==
    /\ \A k \in 2 .. Len(log_likelihoods) :
          Within(log_likelihoods[k], log_likelihoods[k - 1], tol)
             => k = Len(log_likelihoods) /\ pc \in {"check", "return", "done"}
    /\ Stopped =>
          /\ iteration = Len(log_likelihoods) - 1
          /\ \/ Len(log_likelihoods) = max_iter
             \/ /\ Len(log_likelihoods) >= 2
                /\ Within(Last(log_likelihoods), Previous(log_likelihoods), tol)

\* a stop before the cap, on a decrease within tol, after an earlier pair that
\* was not within tol
C1_Witness ==
    /\ pc = "done"
    /\ Len(log_likelihoods) >= 3
    /\ Len(log_likelihoods) < max_iter
    /\ FLess(Last(log_likelihoods), Previous(log_likelihoods))
    /\ Within(Last(log_likelihoods), Previous(log_likelihoods), tol)

\* C2: fit terminates, after at most max_iter iterations, and once the loop
\* has been left no statement of it runs again.
C2_TerminatesWithinCap ==
    /\ <>(pc = "done")
    /\ [](iteration < max_iter /\ Len(log_likelihoods) <= max_iter)
    /\ [][Stopped => Stopped']_vars

\* a call that returned after using the whole cap
C2_Witness ==
    /\ pc = "done"
    /\ max_iter = MaxIter
    /\ iteration = max_iter - 1
    /\ stdout = <<>>

\* C3: the trace starts empty and gains exactly one entry per iteration, at
\* its end, nothing in it being removed or rewritten; its length is the number
\* of iterations whose log-likelihood step has run, and the returned trace has
\* between 1 and max_iter entries.
C3_TraceGrowsByOne ==
    /\ [](/\ Len(log_likelihoods) = (IF InLoopBody THEN iteration ELSE iteration + 1)
          /\ pc = "done" => /\ ret[5] = log_likelihoods
                            /\ Len(ret[5]) \in 1 .. max_iter)
    /\ [][\/ log_likelihoods' = log_likelihoods
          \/ /\ pc = "loglik"
             /\ Len(log_likelihoods') = Len(log_likelihoods) + 1
             /\ SubSeq(log_likelihoods', 1, Len(log_likelihoods)) = log_likelihoods]_vars

\* a returned trace of three entries
C3_Witness ==
    /\ pc = "done"
    /\ Len(ret[5]) = 3
    /\ iteration = 2

\* C4: with max_iter = 1 the call returns a trace of one entry and prints no
\* convergence message, whatever the sample and the tolerance.
C4_SingleIteration ==
    max_iter = 1 =>
        /\ stdout = <<>>
        /\ pc = "check" => ~Converged(iteration, log_likelihoods, tol)
        /\ pc = "done" => Len(ret[5]) = 1

\* a call with max_iter = 1 and the widest tolerance has returned
C4_Witness ==
    /\ max_iter = 1
    /\ pc = "done"
    /\ tol = Fin(2 * SCALE)
    /\ IsFin(ret[5][1])

InUnit(a) == IsFin(a) /\ 0 <= a.v /\ a.v <= SCALE

\* a finite value within one fixed-point unit of 1
NearOne(a) == IsFin(a) /\ SCALE - 1 <= a.v /\ a.v <= SCALE + 1

\* C6: weight_1 + weight_2 = 1 in the initial state and after every M-step.
C6_WeightsSumToOne == FAdd(pi1, pi2) = One

\* C7: weight_1 and weight_2 each lie in [0, 1] at every iteration boundary.
C7_WeightsInUnitInterval == InUnit(pi1) /\ InUnit(pi2)

\* C8: after every E-step the responsibilities of each point lie in [0, 1]
\* and sum to 1 (to within the rounding of the two divisions).
C8_ResponsibilitiesSumToOne ==
    \A i \in 1 .. Len(r1) :
        /\ InUnit(r1[i])
        /\ InUnit(r2[i])
        /\ NearOne(FAdd(r1[i], r2[i]))

\* every count of the sample is zero
AllZero == \A i \in 1 .. Len(data) : data[i] = 0

\* the first M-step of the call has run
AfterFirstMStep == pc = "loglik" \/ Len(log_likelihoods) >= 1

\* C9 as stated: mean_1 and mean_2 are positive at every iteration boundary,
\* also on a sample of zeros only.
C9_MeansPositive ==
    /\ IsFin(mu1) /\ mu1.v > 0
    /\ IsFin(mu2) /\ mu2.v > 0

\* C9 as amended: mean_1 and mean_2 are never negative; they are positive in
\* the initial state, and on a sample of zeros only both are exactly 0 from
\* the first M-step on.
C9_MeansNeverNegative ==
    /\ ~IsNeg(mu1)
    /\ ~IsNeg(mu2)
    /\ ~AfterFirstMStep => IsPos(mu1) /\ IsPos(mu2)
    /\ (AllZero /\ AfterFirstMStep) => mu1 = Zero /\ mu2 = Zero

\* a fit of a sample of zeros has converged with both means at 0
C9_Witness ==
    /\ pc = "done"
    /\ AllZero
    /\ stdout # <<>>
    /\ ret[1] = Zero
    /\ ret[2] = Zero

\* C11 as stated: a malformed sample is rejected before any iteration runs:
\* no E-step is executed on it, its trace stays empty and nothing is returned.
C11_MalformedRejected ==
    Malformed(data) =>
        /\ pc \notin {"mstep", "loglik", "check"}
        /\ log_likelihoods = <<>>
        /\ ret = <<>>

\* the M-step has run on the responsibilities it divides by
AfterMStep == pc \in {"loglik", "check", "for", "return", "done"} /\ iteration >= 0

\* C12 as stated: no M-step completes on a responsibility sum of zero and no
\* state whose mean is a quotient by a zero sum is returned: fit has aborted.
C12_DegenerateAborts ==
    AfterMStep => ~IsZero(FSum(r1)) /\ ~IsZero(FSum(r2))

\* the call before this one was reported as converged, and this one has the
\* same sample, cap and tolerance
RefitOfConverged == last.ret # <<>> /\ last.stdout # <<>> /\ last.tol = tol

C14_StartsFromCallerState ==
    (pc = "estep" /\ iteration = 0) =>
        /\ <<mu1, mu2, pi1, pi2>> = CallerState
        /\ CallerState # initialize_parameters =>
               <<mu1, mu2, pi1, pi2>> # initialize_parameters

\* every count of the sample is the same value
AllSame == Len(data) >= 1 /\ \A i \in 1 .. Len(data) : data[i] = data[1]

\* the rounding a weight gathers over the iterations of a fit
WeightRounding == SCALE \div 50

\* two finite values equal to within the rounding
Close(a, b) ==
    /\ IsFin(a) /\ IsFin(b)
    /\ a.v - b.v <= WeightRounding
    /\ b.v - a.v <= WeightRounding

\* C15 as stated: on a sample of one repeated value v both means are v from
\* the first M-step on, every later iteration leaves the state the first
\* M-step wrote (the weights to within rounding), and with max_iter >= 3 the
\* fit is reported as converged with a trace of at most three entries.
C15_SameValueConverges ==
    AllSame =>
        /\ AfterFirstMStep =>
               /\ mu1 = FromInt(data[1])
               /\ mu2 = FromInt(data[1])
               /\ Close(pi1, Iterate(1, data)[3])
               /\ Close(pi2, Iterate(1, data)[4])
        /\ (pc = "done" /\ max_iter >= 3) =>
               stdout # <<>> /\ Len(ret[5]) <= 3

\* C17: the sample is fixed for the duration of a fit: from the call to the
\* return no step changes its elements, their order or its length.
C17_SampleFixed == [][pc # "idle" => data' = data]_vars

\* a fit of a sample of two different counts has normalized r1 and r2 in
\* place twice or more and returned
C17_Witness ==
    /\ pc = "done"
    /\ Len(data) >= 2
    /\ data[1] # data[2]
    /\ Len(r1) = Len(data)
    /\ Len(log_likelihoods) >= 2

\* C18: the log-likelihood appended in iteration k is the sum of
\* log(u1 + u2) under the parameters in force at the start of iteration k,
\* the state k passes of the loop body make of the initial one, and the
\* unnormalized sums are still those of the E-step when it is computed; so
\* entry 0 is the log-likelihood of the initial state, and the last entry is
\* that of the state the last M-step replaced, not computed from the
\* returned one.
C18_TraceFromStartOfIteration ==
    /\ Len(log_likelihoods) >= 1 =>
          log_likelihoods[1] = LogLikelihoodOf(initialize_parameters, data)
    /\ pc = "check" =>
          Last(log_likelihoods) = LogLikelihoodOf(Iterate(iteration, data), data)
    /\ pc = "done" =>
          \A k \in 1 .. Len(ret[5]) :
             ret[5][k] = LogLikelihoodOf(Iterate(k - 1, data), data)

\* a fit has returned a trace whose last entry differs from the
\* log-likelihood of the state it returned
C18_Witness ==
    /\ pc = "done"
    /\ Len(ret[5]) >= 2
    /\ IsFin(Last(ret[5]))
    /\ Last(ret[5]) # LogLikelihoodOf(SubSeq(ret, 1, 4), data)

\* the M-steps the call has run
MStepsRun == IF pc \in {"estep", "mstep"} THEN iteration ELSE iteration + 1

\* C19: the M-step runs before the stopping check in every iteration, also
\* in the one that detects convergence: the state an M-step leaves is the
\* initial state updated by as many M-steps as iterations have reached their
\* M-step, and the returned state is the initial state updated by exactly
\* len(trace) M-steps, the last of them in the last executed iteration.
C19_ReturnsLastMStep ==
    /\ pc = "loglik" => <<mu1, mu2, pi1, pi2>> = Iterate(MStepsRun, data)
    /\ pc = "check" => MStepsRun = Len(log_likelihoods)
    /\ pc = "done" =>
          /\ Len(ret[5]) = iteration + 1
          /\ SubSeq(ret, 1, 4) = Iterate(Len(ret[5]), data)

\* a fit reported as converged has returned a state that the M-step of its
\* last iteration changed
C19_Witness ==
    /\ pc = "done"
    /\ stdout # <<>>
    /\ SubSeq(ret, 1, 4) = Iterate(Len(ret[5]), data)
    /\ Iterate(Len(ret[5]), data) # Iterate(Len(ret[5]) - 1, data)

\* the smallest and the largest count of the sample
SampleMin == CHOOSE x \in {data[i] : i \in 1 .. Len(data)} :
                \A j \in 1 .. Len(data) : x <= data[j]
SampleMax == CHOOSE x \in {data[i] : i \in 1 .. Len(data)} :
                \A j \in 1 .. Len(data) : x >= data[j]

\* a finite value between the smallest and the largest count of the sample
WithinSample(a) ==
    IsFin(a) /\ SampleMin * SCALE <= a.v /\ a.v <= SampleMax * SCALE

\* C21: after every M-step in which both responsibility sums are non-zero,
\* mean_1 and mean_2 each lie between the smallest and the largest count of
\* the sample.
C21_MeansWithinSample ==
    (AfterMStep /\ Len(data) >= 1 /\ ~IsZero(FSum(r1)) /\ ~IsZero(FSum(r2))) =>
        WithinSample(mu1) /\ WithinSample(mu2)

\* C22 as stated: the loop run from the swapped initial state yields the
\* same trace, hence the same stopping iteration, and after every M-step the
\* swap of the state the loop holds.
C22_SwapSymmetric ==
    /\ pc = "loglik" =>
          <<mu1, mu2, pi1, pi2>>
             = Swap(IterateFrom(Swap(initialize_parameters), MStepsRun, data))
    /\ pc = "check" =>
          Last(log_likelihoods)
             = LogLikelihoodOf(
                  IterateFrom(Swap(initialize_parameters), iteration, data), data)

\* C22 as amended: one pass of the loop is symmetric under the swap except
\* for the weights: from the swap of the state an iteration starts from, the
\* E-step gives r2 and r1 for r1 and r2 and the same log-likelihood, and the
\* M-step gives the two means swapped, but the weights mean(r2) and
\* 1 - mean(r2), where the loop itself holds 1 - mean(r1) and mean(r1).
C22_SwapSymmetricPass ==
    /\ pc = "loglik" =>
          /\ EStepOf(Swap(Iterate(iteration, data)), data) = <<r2, r1>>
          /\ Iteration(Swap(Iterate(iteration, data)), data)
                = <<mu2, mu1, FMean(r2), Complement(FMean(r2))>>
          /\ pi1 = FMean(r1)
          /\ pi2 = Complement(FMean(r1))
    /\ pc = "check" =>
          Last(log_likelihoods)
             = LogLikelihoodOf(Swap(Iterate(iteration, data)), data)

\* a second or later M-step has written different means, and the weight the
\* swapped pass gives, mean(r2), is not the 1 - mean(r1) the loop holds
C22_Witness ==
    /\ pc = "loglik"
    /\ iteration >= 1
    /\ mu1 # mu2
    /\ IsFin(pi2)
    /\ FMean(r2) # pi2

====
